---- MODULE Spec2Model ----
(***************************************************************************)
(* Model of src/App.py: the Streamlit script that reads an uploaded bank   *)
(* ledger, normalizes it (analyze_transactions), classifies every row with *)
(* the Groq service (classify_transaction_groq), aggregates per category   *)
(* (generate_donut_chart, generate_ratios, the rasio map), prints the      *)
(* per-category advice, offers the HTML/PDF export and draws the monthly   *)
(* trend.                                                                  *)
(*                                                                         *)
(* Text is a sequence of one-character strings.  Amounts are integers: for *)
(* integer amounts of the sizes used here the float comparison             *)
(* amt/total*100 > t agrees with the exact comparison amt*100 > t*total.   *)
(***************************************************************************)
EXTENDS Integers, Sequences, FiniteSets, TLC

VARIABLES
    pc,        \* position of the script run
    weasy,     \* WEASYPRINT_AVAILABLE, fixed at import
    raw,       \* the table read by pd.read_excel
    df,        \* rows of the normalized frame (tanggal, description, jumlah)
    kategori,  \* the labels produced so far by .apply(classify_transaction_groq)
    log,       \* one entry per row: the service outcome seen by the classifier
    summary,   \* generate_donut_chart's summary: kategori -> abs(sum(jumlah))
    total,     \* line 223
    nilai,     \* line 229
    rasio,     \* line 230, as an exact fraction num/den
    advice,    \* the branch of each st.info taken at lines 248-278
    ratios,    \* generate_ratios' dict, lines 125-131
    pivot,     \* pivot_df of line 324
    ui         \* the widgets and warnings shown so far

vars == <<pc, weasy, raw, df, kategori, log, summary, total, nilai, rasio,
          advice, ratios, pivot, ui>>

---------------------------------------------------------------------------
(* Bounds of the model *)

MaxRows == 2

MaxNoise == 2

---------------------------------------------------------------------------
(* Characters and the str methods the code uses *)

LowerLetters ==
    <<"a","b","c","d","e","f","g","h","i","j","k","l","m",
      "n","o","p","q","r","s","t","u","v","w","x","y","z">>

UpperLetters ==
    <<"A","B","C","D","E","F","G","H","I","J","K","L","M",
      "N","O","P","Q","R","S","T","U","V","W","X","Y","Z">>

DigitChars == <<"0","1","2","3","4","5","6","7","8","9">>

Range(s) == { s[i] : i \in DOMAIN s }

IndexOf(c, s) == CHOOSE i \in DOMAIN s : s[i] = c

Whitespace == {" ", "\n", "\t", "\r"}

IsAsciiLetter(c) == c \in Range(LowerLetters) \cup Range(UpperLetters)

IsDigit(c) == c \in Range(DigitChars)

DigitVal(c) == IndexOf(c, DigitChars) - 1

\* str.lower / str.upper on one character
lower(c) ==
    IF c \in Range(UpperLetters) THEN LowerLetters[IndexOf(c, UpperLetters)] ELSE c

upper(c) ==
    IF c \in Range(LowerLetters) THEN UpperLetters[IndexOf(c, LowerLetters)] ELSE c

\* str.lower, as used by df.rename(columns=str.lower)
str_lower(s) == [i \in DOMAIN s |-> lower(s[i])]

str_upper(s) == [i \in DOMAIN s |-> upper(s[i])]

\* str.capitalize: first character upper-cased, the rest lower-cased
capitalize(s) == [i \in DOMAIN s |-> IF i = 1 THEN upper(s[i]) ELSE lower(s[i])]

\* str.strip: leading and trailing whitespace removed
strip(s) ==
    LET keep == { i \in DOMAIN s : s[i] \notin Whitespace }
    IN  IF keep = {} THEN <<>>
        ELSE LET lo == CHOOSE i \in keep : \A j \in keep : i <= j
                 hi == CHOOSE i \in keep : \A j \in keep : j <= i
             IN  SubSeq(s, lo, hi)

\* re.sub(r"[^a-zA-Z]", "", raw)
re_sub(s) == SelectSeq(s, IsAsciiLetter)

RECURSIVE NatToText(_)
NatToText(n) ==
    IF n < 10 THEN <<DigitChars[n + 1]>>
    ELSE NatToText(n \div 10) \o <<DigitChars[(n % 10) + 1]>>

\* str(int)
IntToText(n) == IF n < 0 THEN <<"-">> \o NatToText(-n) ELSE NatToText(n)

RECURSIVE TextToNat(_)
TextToNat(s) ==
    IF s = <<>> THEN 0
    ELSE 10 * TextToNat(SubSeq(s, 1, Len(s) - 1)) + DigitVal(s[Len(s)])

AllDigits(s) == s # <<>> /\ \A i \in DOMAIN s : IsDigit(s[i])

---------------------------------------------------------------------------
(* Cells of the uploaded sheet *)

NaT == <<0, 0, 0>>

NaNCell == [kind |-> "nan", s |-> <<>>, n |-> 0, d |-> NaT]

StrCell(t) == [kind |-> "str", s |-> t, n |-> 0, d |-> NaT]

NumCell(v) == [kind |-> "num", s |-> <<>>, n |-> v, d |-> NaT]

DateCell(y, m, dd) == [kind |-> "date", s |-> <<>>, n |-> 0, d |-> <<y, m, dd>>]

\* str(text) of line 34: a missing cell is the float nan, printed "nan"
str(c) ==
    CASE c.kind = "nan" -> <<"n", "a", "n">>
      [] c.kind = "str" -> c.s
      [] c.kind = "num" -> IntToText(c.n)
      [] OTHER -> NatToText(c.d[1]) \o <<"-">> \o NatToText(c.d[2])
                    \o <<"-">> \o NatToText(c.d[3])

\* pd.to_numeric(..., errors="coerce") on one cell: a number, or NaN
\* (texts here are integer literals or not numbers at all)
to_numeric(c) ==
    CASE c.kind = "num" -> [nan |-> FALSE, n |-> c.n]
      [] c.kind = "str" ->
            LET t == strip(c.s)
            IN  IF AllDigits(t) THEN [nan |-> FALSE, n |-> TextToNat(t)]
                ELSE IF Len(t) > 1 /\ t[1] = "-" /\ AllDigits(Tail(t))
                     THEN [nan |-> FALSE, n |-> 0 - TextToNat(Tail(t))]
                     ELSE [nan |-> TRUE, n |-> 0]
      [] OTHER -> [nan |-> TRUE, n |-> 0]

\* .fillna(0)
fillna0(v) == IF v.nan THEN 0 ELSE v.n

DaysInMonth(y, m) ==
    IF m = 2 THEN (IF y % 4 = 0 /\ (y % 100 # 0 \/ y % 400 = 0) THEN 29 ELSE 28)
    ELSE IF m \in {4, 6, 9, 11} THEN 30 ELSE 31

\* pd.to_datetime(..., errors="coerce") on one cell: a date, or NaT
\* (texts here are ISO dates YYYY-MM-DD or not dates at all)
to_datetime(c) ==
    CASE c.kind = "date" -> c.d
      [] c.kind = "num" -> <<1970, 1, 1>>
      [] c.kind = "str" ->
            LET t == strip(c.s)
            IN  IF /\ Len(t) = 10
                   /\ t[5] = "-" /\ t[8] = "-"
                   /\ \A i \in {1, 2, 3, 4, 6, 7, 9, 10} : IsDigit(t[i])
                THEN LET y == TextToNat(SubSeq(t, 1, 4))
                         m == TextToNat(SubSeq(t, 6, 7))
                         dd == TextToNat(SubSeq(t, 9, 10))
                     IN  IF y >= 1 /\ m \in 1..12 /\ dd \in 1..DaysInMonth(y, m)
                         THEN <<y, m, dd>> ELSE NaT
                ELSE NaT
      [] OTHER -> NaT

---------------------------------------------------------------------------
(* Labels and column names *)

Kewajiban == <<"K","e","w","a","j","i","b","a","n">>

Kebutuhan == <<"K","e","b","u","t","u","h","a","n">>

Tujuan == <<"T","u","j","u","a","n">>

Keinginan == <<"K","e","i","n","g","i","n","a","n">>

TidakTerkategori ==
    <<"T","i","d","a","k"," ","T","e","r","k","a","t","e","g","o","r","i">>

\* line 70
valid == {Kewajiban, Kebutuhan, Tujuan, Keinginan}

\* lines 128 and 222
kategori_list == <<Kewajiban, Kebutuhan, Tujuan, Keinginan>>

col_tanggal == <<"t","a","n","g","g","a","l">>

col_jumlah == <<"j","u","m","l","a","h">>

col_debit == <<"d","e","b","i","t">>

col_kredit == <<"k","r","e","d","i","t">>

col_transaksi == <<"t","r","a","n","s","a","k","s","i">>

col_deskripsi == <<"d","e","s","k","r","i","p","s","i">>

---------------------------------------------------------------------------
(* classify_transaction_groq *)

\* What client.chat.completions.create and the reading of its reply can do:
\* a reply text, an API error, a timeout, a reply whose content is None
\* (each of the last three raises inside the try block); "nocall" marks a
\* row for which the service is not called.
Reply(t) == [kind |-> "reply", raw |-> t]

ApiError == [kind |-> "error", raw |-> <<>>]

ApiTimeout == [kind |-> "timeout", raw |-> <<>>]

NoContent == [kind |-> "nocontent", raw |-> <<>>]

NoCall == [kind |-> "nocall", raw |-> <<>>]

Raises(o) == o.kind \in {"error", "timeout", "nocontent"}

\* clean_reply without the re.sub of line 63
clean_reply_no_regex(reply) ==
    LET cleaned == capitalize(strip(reply))
    IN  IF cleaned \in valid THEN cleaned ELSE TidakTerkategori

\* lines 62-71: the reply cleaned and validated
clean_reply(reply) ==
    LET stripped == strip(reply)
        cleaned == capitalize(re_sub(stripped))
    IN  IF cleaned \in valid THEN cleaned ELSE TidakTerkategori

\* classify_transaction_groq without the membership test of line 71
classify_unvalidated(text, o) ==
    IF strip(str(text)) = <<>> THEN TidakTerkategori
    ELSE IF Raises(o) \/ o.kind = "nocall" THEN TidakTerkategori
         ELSE capitalize(re_sub(strip(o.raw)))

\* lines 33-77
classify_transaction_groq(text, o) ==
    IF strip(str(text)) = <<>> THEN TidakTerkategori
    ELSE IF Raises(o) \/ o.kind = "nocall" THEN TidakTerkategori
         ELSE clean_reply(o.raw)

\* the outcomes the call can have for one cell, given the replies R and the
\* failures F
Outcomes(text, R, F) ==
    IF strip(str(text)) = <<>> THEN {NoCall}
    ELSE { Reply(r) : r \in R } \cup F

---------------------------------------------------------------------------
(* analyze_transactions, lines 83-104 *)

\* df.rename(columns=str.lower)
columns(t) == [i \in DOMAIN t.cols |-> str_lower(t.cols[i])]

HasCol(t, name) == \E i \in DOMAIN t.cols : columns(t)[i] = name

ColIdx(t, name) == CHOOSE i \in DOMAIN t.cols : columns(t)[i] = name

Cell(t, r, name) == t.rows[r][ColIdx(t, name)]

tanggal_of(t, r) ==
    IF HasCol(t, col_tanggal) THEN to_datetime(Cell(t, r, col_tanggal)) ELSE NaT

\* jumlah_of with the debit/kredit pair tested before the jumlah column
jumlah_of_pair_first(t, r) ==
    IF HasCol(t, col_debit) /\ HasCol(t, col_kredit)
    THEN fillna0(to_numeric(Cell(t, r, col_debit)))
           - fillna0(to_numeric(Cell(t, r, col_kredit)))
    ELSE IF HasCol(t, col_jumlah) THEN fillna0(to_numeric(Cell(t, r, col_jumlah)))
         ELSE 0

jumlah_of(t, r) ==
    IF HasCol(t, col_jumlah) THEN fillna0(to_numeric(Cell(t, r, col_jumlah)))
    ELSE IF HasCol(t, col_debit) /\ HasCol(t, col_kredit)
         THEN fillna0(to_numeric(Cell(t, r, col_debit)))
                - fillna0(to_numeric(Cell(t, r, col_kredit)))
         ELSE 0

transaksi_col(t) == IF HasCol(t, col_transaksi) THEN col_transaksi ELSE col_deskripsi

description_of(t, r) ==
    IF HasCol(t, transaksi_col(t)) THEN Cell(t, r, transaksi_col(t)) ELSE StrCell(<<>>)

analyze_transactions(t) ==
    [r \in DOMAIN t.rows |->
        [tanggal |-> tanggal_of(t, r),
         description |-> description_of(t, r),
         jumlah |-> jumlah_of(t, r)]]

---------------------------------------------------------------------------
(* Aggregation *)

Abs(x) == IF x < 0 THEN 0 - x ELSE x

RECURSIVE SumSeq(_)
SumSeq(s) == IF s = <<>> THEN 0 ELSE s[1] + SumSeq(Tail(s))

\* the jumlah column of the rows labelled k, in row order
JumlahOf(d, kat, k) ==
    LET idx == SelectSeq([i \in DOMAIN d |-> i], LAMBDA i : kat[i] = k)
    IN  [j \in DOMAIN idx |-> d[idx[j]].jumlah]

AbsSeq(s) == [i \in DOMAIN s |-> Abs(s[i])]

\* line 114: df.groupby("kategori")["jumlah"].sum().abs()
donut_value(d, kat, k) == Abs(SumSeq(JumlahOf(d, kat, k)))

generate_donut_chart(d, kat) ==
    [k \in Range(kat) |-> donut_value(d, kat, k)]

\* lines 126 and 223: df["jumlah"].abs().sum()
total_abs(d) == SumSeq(AbsSeq([i \in DOMAIN d |-> d[i].jumlah]))

\* lines 129 and 228: df[df["kategori"] == k]["jumlah"].abs().sum()
amount_of(d, kat, k) == SumSeq(AbsSeq(JumlahOf(d, kat, k)))

\* line 230: (amt / total * 100) if total else 0, kept as a fraction
rasio_of(amt, tot) ==
    IF tot # 0 THEN [num |-> amt * 100, den |-> tot] ELSE [num |-> 0, den |-> 1]

\* "{x:.2f}": the fraction num/den rounded to hundredths, ties to even
Round2(num, den) ==
    LET q == num \div den
        r == num % den
        h == (r * 100) \div den
        rest == (r * 100) % den
        up == 2 * rest > den \/ (2 * rest = den /\ h % 2 = 1)
    IN  q * 100 + h + (IF up THEN 1 ELSE 0)

\* line 130: f"{(amount/total*100):.2f}%" if total else "0%"
ratio_text(amt, tot) ==
    IF tot # 0 THEN [zero |-> FALSE, hundredths |-> Round2(amt * 100, tot)]
    ELSE [zero |-> TRUE, hundredths |-> 0]

generate_ratios(d, kat) ==
    [k \in Range(kategori_list) |-> ratio_text(amount_of(d, kat, k), total_abs(d))]

---------------------------------------------------------------------------
(* The advice of lines 248-278 *)

KewajibanLimit == 30

KebutuhanLimit == 50

TujuanLimit == 10

KeinginanLimit == 40

\* pct > limit and pct < limit on the fraction pct
Above(p, limit) == p.num > limit * p.den

Below(p, limit) == p.num < limit * p.den

\* advice_of with the Kewajiban test written pct >= 30
advice_of_nonstrict(k, p) ==
    CASE k = Kewajiban -> IF ~Below(p, KewajibanLimit) THEN "warn" ELSE "ok"
      [] k = Kebutuhan -> IF Above(p, KebutuhanLimit) THEN "warn" ELSE "ok"
      [] k = Tujuan -> IF Below(p, TujuanLimit) THEN "warn" ELSE "ok"
      [] OTHER -> IF Above(p, KeinginanLimit) THEN "warn" ELSE "ok"

advice_of(k, p) ==
    CASE k = Kewajiban -> IF Above(p, KewajibanLimit) THEN "warn" ELSE "ok"
      [] k = Kebutuhan -> IF Above(p, KebutuhanLimit) THEN "warn" ELSE "ok"
      [] k = Tujuan -> IF Below(p, TujuanLimit) THEN "warn" ELSE "ok"
      [] OTHER -> IF Above(p, KeinginanLimit) THEN "warn" ELSE "ok"

---------------------------------------------------------------------------
(* The monthly trend of lines 321-324 *)

Pad(t, n) == [i \in 1..(n - Len(t)) |-> "0"] \o t

\* .dt.to_period('M').astype(str): "YYYY-MM", and "NaT" for a missing date
bulan_of(d) ==
    IF d = NaT THEN <<"N", "a", "T">>
    ELSE Pad(NatToText(d[1]), 4) \o <<"-">> \o Pad(NatToText(d[2]), 2)

\* not df['tanggal'].isna().all()
has_dates(d) == \E i \in DOMAIN d : d[i].tanggal # NaT

\* groupby(['bulan','kategori'])['jumlah'].sum() of one group
monthly_sum(d, kat, b, k) ==
    LET idx == SelectSeq([i \in DOMAIN d |-> i],
                         LAMBDA i : kat[i] = k /\ bulan_of(d[i].tanggal) = b)
    IN  SumSeq([j \in DOMAIN idx |-> d[idx[j]].jumlah])

monthly_groups(d, kat) == { <<bulan_of(d[i].tanggal), kat[i]>> : i \in DOMAIN d }

\* monthly.pivot(index='bulan', columns='kategori', values='jumlah').fillna(0)
pivot_of(d, kat) ==
    LET index == { g[1] : g \in monthly_groups(d, kat) }
        cols == { g[2] : g \in monthly_groups(d, kat) }
    IN  [computed |-> TRUE,
         index |-> index,
         columns |-> cols,
         cell |-> [g \in index \X cols |->
                     IF g \in monthly_groups(d, kat)
                     THEN monthly_sum(d, kat, g[1], g[2]) ELSE 0]]

NoPivot == [computed |-> FALSE, index |-> {}, columns |-> {}, cell |-> <<>>]

---------------------------------------------------------------------------
(* The uploaded tables and the service replies the model explores *)

LogicalCols ==
    <<col_tanggal, col_transaksi, col_deskripsi, col_jumlah, col_debit, col_kredit>>

SeqsUpTo(S, lo, hi) == UNION { [1..n -> S] : n \in lo..hi }

txt_kopi == <<"k","o","p","i">>

txt_gaji == <<"g","a","j","i">>

txt_abc == <<"a","b","c">>

txt_blank == <<" ", " ">>

txt_iso_feb == <<"2","0","2","4","-","0","2","-","0","3">>

\* One sheet row per template, the cells in the order of LogicalCols
RowTemplates ==
    { <<DateCell(2024, 1, 15), StrCell(txt_kopi), StrCell(txt_gaji),
        NumCell(75000), NumCell(200000), NumCell(50000)>>,
      <<NaNCell, NaNCell, NaNCell, NaNCell, NaNCell, NaNCell>>,
      <<StrCell(txt_abc), StrCell(txt_blank), StrCell(<<>>),
        StrCell(txt_abc), StrCell(txt_abc), NumCell(50000)>>,
      <<StrCell(txt_iso_feb), NaNCell, StrCell(txt_kopi),
        StrCell(<<"-", "7">>), NumCell(200000), NaNCell>> }

HeaderStyle(style, name) ==
    CASE style = "lower" -> name
      [] style = "Capital" -> capitalize(name)
      [] OTHER -> str_upper(name)

\* the table holding the logical columns `present`, named in `style`
MakeTable(style, present, rows) ==
    LET idx == SelectSeq([i \in 1..6 |-> i], LAMBDA i : i \in present)
    IN  [cols |-> [j \in DOMAIN idx |-> HeaderStyle(style, LogicalCols[idx[j]])],
         rows |-> [r \in DOMAIN rows |-> [j \in DOMAIN idx |-> rows[r][idx[j]]]]]

\* every subset of the six columns, in two header styles
NormalizeTables ==
    { MakeTable(st, present, rows) :
        st \in {"Capital", "UPPER"},
        present \in SUBSET (1..6),
        rows \in SeqsUpTo(RowTemplates, 1, MaxRows) }

\* date, description and amount all present; the amounts and dates vary
AggregateRows ==
    { <<DateCell(2024, 1, 15), StrCell(txt_kopi), NumCell(1)>>,
      <<DateCell(2024, 1, 20), StrCell(txt_kopi), NumCell(9)>>,
      <<NaNCell, StrCell(txt_kopi), NumCell(3)>>,
      <<DateCell(2024, 2, 3), StrCell(txt_kopi), NumCell(7)>>,
      <<DateCell(2024, 2, 3), StrCell(txt_kopi), NumCell(0 - 3)>>,
      <<NaNCell, StrCell(txt_kopi), NumCell(0)>>,
      <<DateCell(2024, 1, 15), StrCell(txt_kopi), NumCell(5)>>,
      <<DateCell(2024, 2, 28), StrCell(txt_kopi), NumCell(4)>>,
      <<StrCell(txt_abc), StrCell(txt_kopi), NumCell(6)>> }

AggregateTables ==
    { [cols |-> <<capitalize(col_tanggal), capitalize(col_transaksi),
                  capitalize(col_jumlah)>>,
       rows |-> rows] : rows \in SeqsUpTo(AggregateRows, 0, MaxRows) }

\* description and amount; the descriptions vary
DescriptionRows ==
    { <<StrCell(txt_kopi), NumCell(5)>>,
      <<StrCell(txt_blank), NumCell(5)>>,
      <<NaNCell, NumCell(5)>> }

DescriptionTables ==
    { [cols |-> <<capitalize(col_deskripsi), capitalize(col_jumlah)>>,
       rows |-> rows] : rows \in SeqsUpTo(DescriptionRows, 1, MaxRows) }

OneRowTables ==
    { [cols |-> <<capitalize(col_deskripsi), capitalize(col_jumlah)>>,
       rows |-> <<r>>] : r \in DescriptionRows }

txt_dont_know == <<"I"," ","d","o","n","'","t"," ","k","n","o","w">>

\* replies: a word, in some letter case, between noise
NoiseChars == {".", "\n", " ", "y"}

ReplyWords ==
    UNION { {w, str_lower(w), str_upper(w)} : w \in valid }
      \cup {txt_dont_know, <<>>}

NoisyReplies ==
    { p \o w \o q :
        p \in SeqsUpTo(NoiseChars \ {"y"}, 0, 1),
        w \in ReplyWords,
        q \in SeqsUpTo(NoiseChars, 0, MaxNoise) }

CanonicalReplies == valid

FewReplies ==
    { Kebutuhan, Kebutuhan \o <<".", "\n">>, str_lower(Tujuan), txt_dont_know, <<>> }

AllFailures == {ApiError, ApiTimeout, NoContent}

---------------------------------------------------------------------------
(* The script run *)

EmptyTable == [cols |-> <<>>, rows |-> <<>>]

Fresh ==
    /\ pc = "idle"
    /\ raw = EmptyTable
    /\ df = <<>>
    /\ kategori = <<>>
    /\ log = <<>>
    /\ summary = <<>>
    /\ total = 0
    /\ nilai = <<>>
    /\ rasio = <<>>
    /\ advice = <<>>
    /\ ratios = <<>>
    /\ pivot = NoPivot
    /\ ui = {"upload_prompt"}

\* lines 15-19 and 200-202, 329-330: no file uploaded yet
Init == weasy \in BOOLEAN /\ Fresh

\* lines 202-206
Upload(T) ==
    /\ pc = "idle"
    /\ \E t \in T : raw' = t
    /\ pc' = "analyze"
    /\ ui' = {"raw_table"}
    /\ UNCHANGED <<weasy, df, kategori, log, summary, total, nilai, rasio,
                   advice, ratios, pivot>>

\* lines 209, 84-104
Normalize ==
    /\ pc = "analyze"
    /\ df' = analyze_transactions(raw)
    /\ pc' = IF raw.rows = <<>> THEN "donut" ELSE "classify"
    /\ UNCHANGED <<weasy, raw, kategori, log, summary, total, nilai, rasio,
                   advice, ratios, pivot, ui>>

\* line 106: df[transaksi_col].apply(classify_transaction_groq), one row
ClassifyRow(R, F) ==
    /\ pc = "classify"
    /\ LET i == Len(kategori) + 1
           text == df[i].description
       IN  \E o \in Outcomes(text, R, F) :
             /\ kategori' = Append(kategori, classify_transaction_groq(text, o))
             /\ log' = Append(log, o)
             /\ ui' = IF Raises(o) THEN ui \cup {"classify_warning"} ELSE ui
             /\ pc' = IF i = Len(df) THEN "donut" ELSE "classify"
    /\ UNCHANGED <<weasy, raw, df, summary, total, nilai, rasio, advice,
                   ratios, pivot>>

\* lines 211-215
Donut ==
    /\ pc = "donut"
    /\ summary' = generate_donut_chart(df, kategori)
    /\ ui' = ui \cup {"classified_table", "donut_chart"}
    /\ pc' = "rasio"
    /\ UNCHANGED <<weasy, raw, df, kategori, log, total, nilai, rasio, advice,
                   ratios, pivot>>

\* lines 220-282
RasioAdvice ==
    /\ pc = "rasio"
    /\ total' = total_abs(df)
    /\ nilai' = [k \in Range(kategori_list) |-> amount_of(df, kategori, k)]
    /\ rasio' = [k \in Range(kategori_list) |->
                    rasio_of(amount_of(df, kategori, k), total_abs(df))]
    /\ advice' = [k \in Range(kategori_list) |-> advice_of(k, rasio'[k])]
    /\ ui' = ui \cup {"ratio_summary"}
    /\ pc' = "export"
    /\ UNCHANGED <<weasy, raw, df, kategori, log, summary, ratios, pivot>>

\* export_section without the try/except of lines 304-313: a rendering
\* failure ends the run
export_section_raises(available, render_ok) ==
    [widgets |-> {"html_button"} \cup
                   (IF available
                    THEN (IF render_ok THEN {"pdf_button"} ELSE {})
                    ELSE {"pdf_unavailable_warning"}),
     next |-> IF available /\ ~render_ok THEN "crashed" ELSE "trend"]

\* lines 292-315: the widgets of the two export columns, and where the run
\* goes next
export_section(available, render_ok) ==
    [widgets |-> {"html_button"} \cup
                   (IF available
                    THEN (IF render_ok THEN {"pdf_button"} ELSE {"pdf_failed_warning"})
                    ELSE {"pdf_unavailable_warning"}),
     next |-> "trend"]

\* lines 287-315
Export ==
    /\ pc = "export"
    /\ ratios' = generate_ratios(df, kategori)
    /\ \E render_ok \in BOOLEAN :
          /\ ui' = ui \cup export_section(weasy, render_ok).widgets
          /\ pc' = export_section(weasy, render_ok).next
    /\ UNCHANGED <<weasy, raw, df, kategori, log, summary, total, nilai,
                   rasio, advice, pivot>>

\* lines 320-327
Trend ==
    /\ pc = "trend"
    /\ pivot' = IF has_dates(df) THEN pivot_of(df, kategori) ELSE NoPivot
    /\ ui' = ui \cup (IF has_dates(df) THEN {"trend_chart"} ELSE {"trend_warning"})
    /\ pc' = "done"
    /\ UNCHANGED <<weasy, raw, df, kategori, log, summary, total, nilai,
                   rasio, advice, ratios>>

\* the next interaction re-runs the script from the top; nothing persists
Rerun ==
    /\ pc = "done"
    /\ pc' = "idle"
    /\ raw' = EmptyTable
    /\ df' = <<>>
    /\ kategori' = <<>>
    /\ log' = <<>>
    /\ summary' = <<>>
    /\ total' = 0
    /\ nilai' = <<>>
    /\ rasio' = <<>>
    /\ advice' = <<>>
    /\ ratios' = <<>>
    /\ pivot' = NoPivot
    /\ ui' = {"upload_prompt"}
    /\ UNCHANGED weasy

Pipeline == Normalize \/ Donut \/ RasioAdvice \/ Export \/ Trend \/ Rerun

Next ==
    \/ Upload(AggregateTables)
    \/ ClassifyRow(CanonicalReplies, {ApiError})
    \/ Pipeline

Spec == Init /\ [][Next]_vars

NextNormalize ==
    \/ Upload(NormalizeTables)
    \/ ClassifyRow({Kebutuhan}, {ApiError})
    \/ Pipeline

SpecNormalize == Init /\ [][NextNormalize]_vars

NextClassify ==
    \/ Upload(OneRowTables)
    \/ ClassifyRow(NoisyReplies, AllFailures)
    \/ Pipeline

SpecClassify == Init /\ [][NextClassify]_vars

NextRows ==
    \/ Upload(DescriptionTables)
    \/ ClassifyRow(FewReplies, AllFailures)
    \/ Pipeline

SpecRows == Init /\ [][NextRows]_vars

---------------------------------------------------------------------------
(* Properties *)

LabelSet == valid \cup {TidakTerkategori}

\* analyze_transactions has computed the normalized columns
Normalized == pc \notin {"idle", "analyze"}

\* analyze_transactions has returned
Analyzed == pc \in {"donut", "rasio", "export", "trend", "done"}

\* C1: whatever the description and whatever the service call does (any
\* reply, an error, a timeout, an empty reply), every classified row carries
\* exactly one label of the closed set, a failed or skipped call gives the
\* sentinel, the label of a row depends on that row's description and
\* outcome only (a reply that is exactly a canonical label is kept whatever
\* happened to the other rows), and the analysis ends with one label per row.
C1_ClassificationTotal ==
    /\ Len(log) = Len(kategori)
    /\ \A i \in DOMAIN kategori :
          /\ kategori[i] \in LabelSet
          /\ log[i].kind # "reply" => kategori[i] = TidakTerkategori
          /\ (log[i].kind = "reply" /\ log[i].raw \in valid) => kategori[i] = log[i].raw
          /\ \A j \in DOMAIN kategori :
                (df[i].description = df[j].description /\ log[i] = log[j])
                    => kategori[i] = kategori[j]
    /\ Analyzed => Len(kategori) = Len(raw.rows)

\* C1 witness: the first call failed, the second row was still labelled from
\* its own reply "Kebutuhan.\n", and the analysis returned
C1_Witness ==
    /\ Analyzed
    /\ Len(kategori) = 2
    /\ Raises(log[1]) /\ kategori[1] = TidakTerkategori
    /\ log[2] = Reply(Kebutuhan \o <<".", "\n">>) /\ kategori[2] = Kebutuhan

\* the ASCII letters of a text, in order, lower-cased
FoldedLetters(t) == str_lower(SelectSeq(t, IsAsciiLetter))

\* the text holds label L as a whole word, in any letter case
NamesLabel(t, L) ==
    \E a \in DOMAIN t : \E b \in a..Len(t) :
        /\ \A i \in a..b : IsAsciiLetter(t[i])
        /\ a = 1 \/ ~IsAsciiLetter(t[a - 1])
        /\ b = Len(t) \/ ~IsAsciiLetter(t[b + 1])
        /\ str_lower(SubSeq(t, a, b)) = str_lower(L)

\* C2 as stated: a reply that names a canonical label, with punctuation,
\* extra words or wrong case around it, yields that label; a reply that names
\* none yields the sentinel.
C2_NamedLabelRecovered ==
    \A i \in DOMAIN kategori :
        log[i].kind = "reply" =>
            /\ \A L \in valid : NamesLabel(log[i].raw, L) => kategori[i] = L
            /\ (\A L \in valid : ~NamesLabel(log[i].raw, L))
                  => kategori[i] = TidakTerkategori

\* C2 amended: the result is the canonical label L exactly when the ASCII
\* letters of the reply, taken in order and compared without regard to
\* case, spell L and nothing else; every other reply yields the sentinel.
C2_CleanedExactMatch ==
    \A i \in DOMAIN kategori :
        log[i].kind = "reply" =>
            /\ \A L \in valid :
                  kategori[i] = L <=> FoldedLetters(log[i].raw) = str_lower(L)
            /\ kategori[i] \in LabelSet

\* C2 witness: the reply "Kebutuhan.\n" was classified Kebutuhan
C2_Witness ==
    /\ Len(kategori) = 1
    /\ log[1] = Reply(Kebutuhan \o <<".", "\n">>)
    /\ kategori[1] = Kebutuhan

\* C3: one normalized row per input row, in order, each with a description
\* that is not null and a numeric amount; the empty string when the sheet
\* has neither a transaksi nor a deskripsi column.
C3_NormalizationTotal ==
    Normalized =>
        /\ Len(df) = Len(raw.rows)
        /\ \A i \in DOMAIN df :
              /\ df[i].description.kind # "nan"
              /\ df[i].jumlah \in Int
              /\ (~HasCol(raw, col_transaksi) /\ ~HasCol(raw, col_deskripsi))
                    => df[i].description = StrCell(<<>>)

\* the positions of the columns whose name is `name` in any letter case
ColsNamed(t, name) ==
    { i \in DOMAIN t.cols :
        /\ Len(t.cols[i]) = Len(name)
        /\ \A j \in DOMAIN name : t.cols[i][j] \in {name[j], upper(name[j])} }

\* a cell as a number: non-numeric or missing is 0
Coerced(c) ==
    CASE c.kind = "num" -> c.n
      [] c = StrCell(<<"-", "7">>) -> 0 - 7
      [] OTHER -> 0

ExpectedAmount(t, r) ==
    IF ColsNamed(t, col_jumlah) # {}
    THEN Coerced(t.rows[r][CHOOSE i \in ColsNamed(t, col_jumlah) : TRUE])
    ELSE IF ColsNamed(t, col_debit) # {} /\ ColsNamed(t, col_kredit) # {}
         THEN Coerced(t.rows[r][CHOOSE i \in ColsNamed(t, col_debit) : TRUE])
                - Coerced(t.rows[r][CHOOSE i \in ColsNamed(t, col_kredit) : TRUE])
         ELSE 0

\* C4: the amount is the jumlah cell when a jumlah column exists (whatever
\* its letter case, and even beside debit and kredit), else debit - kredit
\* when both exist, else 0; non-numeric and missing cells count as 0.
C4_AmountResolution ==
    Normalized =>
        \A i \in DOMAIN df : df[i].jumlah = ExpectedAmount(raw, i)

\* C4 witness: debit and kredit columns only, debit=200000, kredit=50000,
\* amount 150000
C4_Witness ==
    /\ Normalized
    /\ ColsNamed(raw, col_jumlah) = {}
    /\ ColsNamed(raw, col_debit) # {}
    /\ ColsNamed(raw, col_kredit) # {}
    /\ \E i \in DOMAIN df :
          /\ Cell(raw, i, col_debit) = NumCell(200000)
          /\ Cell(raw, i, col_kredit) = NumCell(50000)
          /\ df[i].jumlah = 150000

\* the export section has run
Exported == pc \in {"trend", "done"}

\* C5: with a non-zero total the category ratios add up to 100%: exactly
\* for the rasio map, within the rounding of four two-decimal figures for
\* generate_ratios.
C5_RatiosSumTo100 ==
    (Exported /\ total # 0) =>
        /\ SumSeq([j \in 1..4 |-> rasio[kategori_list[j]].num]) = 100 * total
        /\ Abs(SumSeq([j \in 1..4 |-> ratios[kategori_list[j]].hundredths]) - 10000) <= 2

\* C6: with a total of zero every ratio is the "0%" sentinel and the advice
\* is "insufficient data" for every category: neither the healthy text nor
\* a threshold warning.
C6_ZeroTotalInsufficientData ==
    (Exported /\ df # <<>> /\ total = 0) =>
        /\ \A k \in valid : ratios[k].zero
        /\ \A k \in valid : advice[k] \notin {"ok", "warn"}

\* C7: the donut summary holds, for each category present and for no other,
\* the sum of abs(amount) over the category's rows.
C7_DonutSumsAbsolute ==
    pc \in {"rasio", "export", "trend", "done"} =>
        /\ DOMAIN summary = Range(kategori)
        /\ \A k \in DOMAIN summary :
              summary[k] = SumSeq([i \in DOMAIN df |->
                                      IF kategori[i] = k THEN Abs(df[i].jumlah) ELSE 0])

\* the amount of category k, from the rows
ShareNum(k) ==
    SumSeq([i \in DOMAIN df |-> IF kategori[i] = k THEN Abs(df[i].jumlah) ELSE 0])

ShareDen == SumSeq([i \in DOMAIN df |-> Abs(df[i].jumlah)])

\* C8: with a non-zero total each warning fires exactly when its own share
\* crosses its strict threshold: Keinginan > 40%, Tujuan < 10%,
\* Kebutuhan > 50%, Kewajiban > 30%.
C8_AdviceThresholds ==
    (pc \in {"export", "trend", "done"} /\ ShareDen # 0) =>
        /\ advice[Keinginan] = "warn" <=> 100 * ShareNum(Keinginan) > 40 * ShareDen
        /\ advice[Tujuan] = "warn" <=> 100 * ShareNum(Tujuan) < 10 * ShareDen
        /\ advice[Kebutuhan] = "warn" <=> 100 * ShareNum(Kebutuhan) > 50 * ShareDen
        /\ advice[Kewajiban] = "warn" <=> 100 * ShareNum(Kewajiban) > 30 * ShareDen
        /\ \A k \in valid : advice[k] \in {"warn", "ok"}

\* C8 witness: Kewajiban at exactly 30% does not fire while the Kebutuhan
\* and Tujuan warnings fire together
C8_Witness ==
    /\ pc = "export"
    /\ ShareDen # 0
    /\ 100 * ShareNum(Kewajiban) = 30 * ShareDen
    /\ advice[Kewajiban] = "ok"
    /\ advice[Kebutuhan] = "warn"
    /\ advice[Tujuan] = "warn"

\* C9: once the export section has run the HTML button is offered, a PDF
\* that is unavailable or fails to render leaves only a warning, and the run
\* is at the monthly trend stage or past it.
C9_HtmlAlwaysOffered ==
    /\ pc \in {"idle", "analyze", "classify", "donut", "rasio", "export",
               "trend", "done"}
    /\ ratios # <<>> =>
          /\ Exported
          /\ "html_button" \in ui
          /\ ~weasy => ("pdf_unavailable_warning" \in ui /\ "pdf_button" \notin ui)
          /\ (weasy /\ "pdf_button" \notin ui) => "pdf_failed_warning" \in ui
    /\ pc = "done" => ("trend_chart" \in ui \/ "trend_warning" \in ui)

\* C9 witness: the PDF rendering failed, the HTML button is there and the
\* trend chart was drawn afterwards
C9_Witness ==
    /\ pc = "done"
    /\ weasy
    /\ "pdf_failed_warning" \in ui
    /\ "html_button" \in ui
    /\ "trend_chart" \in ui

\* the calendar month of a dated row, as the pivot prints it
MonthKey(d) == Pad(NatToText(d[1]), 4) \o <<"-">> \o Pad(NatToText(d[2]), 2)

Dated(i) == df[i].tanggal # NaT

\* C10: the pivot is computed exactly when some row has a date; its month
\* keys are the months of dated rows; each entry is the signed sum of the
\* category's rows dated in that month; undated rows add no key and no
\* amount.
C10_MonthlyPivot ==
    pc = "done" =>
        /\ pivot.computed <=> \E i \in DOMAIN df : Dated(i)
        /\ pivot.computed =>
              /\ \A b \in pivot.index :
                    \E i \in DOMAIN df : Dated(i) /\ MonthKey(df[i].tanggal) = b
              /\ \A g \in DOMAIN pivot.cell :
                    pivot.cell[g] =
                        SumSeq([i \in DOMAIN df |->
                                  IF Dated(i) /\ MonthKey(df[i].tanggal) = g[1]
                                              /\ kategori[i] = g[2]
                                  THEN df[i].jumlah ELSE 0])

====
